---------------------------- MODULE Spec2Model ----------------------------
(***************************************************************************)
(* A model of eslint-bot (src/server.js): the patch parser                 *)
(* getLineMapFromPatchString, the grouping of lint errors by line, the     *)
(* emission of review comments, and the webhook handler that drives one    *)
(* pipeline per changed file.                                              *)
(*                                                                         *)
(* Strings are modelled as sequences: a line of a patch is the sequence of *)
(* its characters, a patch string is the sequence of its '\n'-separated    *)
(* lines (what patchString.split('\n') returns, so the empty string is the *)
(* one-line patch << <<>> >>), and a comment body is a sequence of text    *)
(* chunks.                                                                 *)
(***************************************************************************)
EXTENDS Integers, Sequences, FiniteSets, TLC

(***************************************************************************)
(* Bounds of the model.                                                    *)
(***************************************************************************)
MaxPatchLines == 4

MaxLintErrors == 3

MaxRequests == 2

MaxRepliedRequests == 1

(***************************************************************************)
(* JavaScript values that are neither strings nor numbers.  They are kept  *)
(* apart from every string of the model, "null" and "undefined" included.  *)
(***************************************************************************)
Undefined == "<undefined>"

Null == "<null>"

(***************************************************************************)
(* Decimal text of numbers, and its inverse (the string -> number coercion *)
(* of `str - 1`).                                                          *)
(***************************************************************************)
DigitChars == <<"0", "1", "2", "3", "4", "5", "6", "7", "8", "9">>

IsDigit(c) == \E d \in 1..10 : DigitChars[d] = c

DigitValue(c) == (CHOOSE d \in 1..10 : DigitChars[d] = c) - 1

RECURSIVE NumberToString(_)
NumberToString(n) ==
    IF n < 10 THEN <<DigitChars[n + 1]>>
    ELSE NumberToString(n \div 10) \o <<DigitChars[(n % 10) + 1]>>

RECURSIVE StringToNumber(_)
StringToNumber(digits) ==
    IF digits = <<>> THEN 0
    ELSE StringToNumber(SubSeq(digits, 1, Len(digits) - 1)) * 10
         + DigitValue(digits[Len(digits)])

(***************************************************************************)
(* The lines a patch is made of.  A hunk header is                         *)
(* "@@ -1,2 +<new-start>,3 @@"; the other lines are a context line, an     *)
(* addition, a deletion, the marker "\ No newline at end of file" that a   *)
(* unified diff puts after the last line of a file lacking a final newline,*)
(* and a line that starts with "@@" but declares no "+<new-start>".        *)
(***************************************************************************)
HunkHeader(newStart) ==
    <<"@", "@", " ", "-", "1", ",", "2", " ", "+">> \o NumberToString(newStart)
        \o <<",", "3", " ", "@", "@">>

ContextLine == <<" ", "c">>

AdditionLine == <<"+", "a">>

DeletionLine == <<"-", "d">>

NoNewlineMarker == <<"\\", " ", "N", "o">>

HeaderWithoutNewStart == <<"@", "@", " ", "x">>

NewStarts == {1, 4, 12}

PatchLines ==
    {HunkHeader(n) : n \in NewStarts}
        \cup {ContextLine, AdditionLine, DeletionLine, NoNewlineMarker,
              HeaderWithoutNewStart}

RECURSIVE SeqsUpTo(_, _)
SeqsUpTo(S, n) ==
    IF n = 0 THEN {<<>>}
    ELSE LET shorter == SeqsUpTo(S, n - 1)
         IN  shorter \cup {Append(s, x) : s \in {t \in shorter : Len(t) = n - 1}, x \in S}

\* ''.split('\n') is [''], so every patch string has at least one line.
EmptyPatchString == << <<>> >>

PatchStrings == (SeqsUpTo(PatchLines, MaxPatchLines) \ {<<>>}) \cup {EmptyPatchString}

(***************************************************************************)
(* getLineMapFromPatchString: the regular expressions and the reducer.     *)
(***************************************************************************)
\* line.match(/^@@.*/)
MatchesHunkHeader(line) == Len(line) >= 2 /\ line[1] = "@" /\ line[2] = "@"

\* line.match(/\+[0-9]+/): the leftmost "+" that a digit follows, with the
\* longest run of digits after it.  The result is the match array <<text>>,
\* or the empty sequence for the null of a failed match.
MatchPlusDigits(line) ==
    LET starts == {i \in 1..(Len(line) - 1) : line[i] = "+" /\ IsDigit(line[i + 1])}
    IN  IF starts = {} THEN <<>>
        ELSE LET s == CHOOSE i \in starts : \A j \in starts : i <= j
                 e == CHOOSE k \in (s + 1)..Len(line) :
                        /\ \A j \in (s + 1)..k : IsDigit(line[j])
                        /\ (k = Len(line) \/ ~IsDigit(line[k + 1]))
             IN  <<SubSeq(line, s, e)>>

\* lineMap[key] = value on a JavaScript object
ObjectSet(obj, key, value) ==
    [k \in (DOMAIN obj) \cup {key} |-> IF k = key THEN value ELSE obj[k]]

\* The reducer on a line that matches /^@@.*/:
\*     fileLineIndex = line.match(/\+[0-9]+/)[0].slice(1) - 1
\* threw records the TypeError of taking [0] of null.
OnHunkHeaderNoMinusOne(acc, line) ==
    LET m == MatchPlusDigits(line)
    IN  IF m = <<>>
        THEN [acc EXCEPT !.threw = TRUE]
        ELSE [acc EXCEPT !.fileLineIndex =
                  StringToNumber(SubSeq(m[1], 2, Len(m[1])))]

OnHunkHeaderResetsPosition(acc, line) ==
    LET m == MatchPlusDigits(line)
    IN  IF m = <<>>
        THEN [acc EXCEPT !.threw = TRUE]
        ELSE [acc EXCEPT !.diffLineIndex = 0,
                         !.fileLineIndex =
                             StringToNumber(SubSeq(m[1], 2, Len(m[1]))) - 1]

OnHunkHeader(acc, line) ==
    LET m == MatchPlusDigits(line)
    IN  IF m = <<>>
        THEN [acc EXCEPT !.threw = TRUE]
        ELSE [acc EXCEPT !.fileLineIndex =
                  StringToNumber(SubSeq(m[1], 2, Len(m[1]))) - 1]

\* A body-line branch that records the position before counting the line,
\* so that the first line after the first header has position 0.
OnBodyLineZeroBased(acc, line) ==
    LET diff == acc.diffLineIndex + 1
        first == IF line = <<>> THEN Undefined ELSE line[1]
    IN  IF first # "-"
        THEN LET file == acc.fileLineIndex + 1
             IN  IF first = "+"
                 THEN [acc EXCEPT !.diffLineIndex = diff,
                                  !.fileLineIndex = file,
                                  !.lineMap = ObjectSet(acc.lineMap, file, diff - 1)]
                 ELSE [acc EXCEPT !.diffLineIndex = diff,
                                  !.fileLineIndex = file]
        ELSE [acc EXCEPT !.diffLineIndex = diff]

\* A body-line branch in which every line counts as a line of the new file.
OnBodyLineCountsDeletions(acc, line) ==
    LET diff == acc.diffLineIndex + 1
        file == acc.fileLineIndex + 1
        first == IF line = <<>> THEN Undefined ELSE line[1]
    IN  IF first = "+"
        THEN [acc EXCEPT !.diffLineIndex = diff,
                         !.fileLineIndex = file,
                         !.lineMap = ObjectSet(acc.lineMap, file, diff)]
        ELSE [acc EXCEPT !.diffLineIndex = diff,
                         !.fileLineIndex = file]

\* The else branch of the reducer callback: diffLineIndex++, and for a line
\* that does not begin with '-', fileLineIndex++ and, when it begins with
\* '+', lineMap[fileLineIndex] = diffLineIndex.  line[0] of the empty line
\* is undefined, which is neither '-' nor '+'.
OnBodyLine(acc, line) ==
    LET diff == acc.diffLineIndex + 1
        first == IF line = <<>> THEN Undefined ELSE line[1]
    IN  IF first # "-"
        THEN LET file == acc.fileLineIndex + 1
             IN  IF first = "+"
                 THEN [acc EXCEPT !.diffLineIndex = diff,
                                  !.fileLineIndex = file,
                                  !.lineMap = ObjectSet(acc.lineMap, file, diff)]
                 ELSE [acc EXCEPT !.diffLineIndex = diff,
                                  !.fileLineIndex = file]
        ELSE [acc EXCEPT !.diffLineIndex = diff]

\* One call of the reducer: acc is the accumulator lineMap together with the
\* two counters the closure captures.
PatchReducer(acc, line) ==
    IF MatchesHunkHeader(line) THEN OnHunkHeader(acc, line) ELSE OnBodyLine(acc, line)

ReducerStart ==
    [lineMap |-> <<>>, diffLineIndex |-> 0, fileLineIndex |-> 0, threw |-> FALSE]

RECURSIVE ReducePatch(_, _)
ReducePatch(acc, lines) ==
    IF lines = <<>> \/ acc.threw THEN acc
    ELSE ReducePatch(PatchReducer(acc, Head(lines)), Tail(lines))

\* The final accumulator of the reduce: .lineMap is the value returned, and
\* .threw tells that the call raised instead of returning.
getLineMapFromPatchString(patchString) == ReducePatch(ReducerStart, patchString)

(***************************************************************************)
(* The lint errors (ESLint messages) and their grouping by line.           *)
(***************************************************************************)
RuleIds == {"no-var", Undefined, Null}

Messages == {"m1", "m2"}

ErrorLines == {5, 8}

LintErrorValues == [ruleId : RuleIds, message : Messages, line : ErrorLines]

LintErrorSeqs == SeqsUpTo(LintErrorValues, MaxLintErrors)

\* '.' + line
getKeyIgnoresLine(line) == <<".">>

getKey(line) == <<".">> \o NumberToString(line)

\* ${value} in a template literal
TemplateText(value) ==
    IF value = Null THEN "null" ELSE IF value = Undefined THEN "undefined" ELSE value

\* const { ruleId = 'Eslint' } = lintError: the default replaces undefined only
RuleIdOrDefault(ruleId) == IF ruleId = Undefined THEN "Eslint" ELSE ruleId

\* `**${ruleId}**: ${message}`
CommentEntry(lintError) ==
    <<"**", TemplateText(RuleIdOrDefault(lintError.ruleId)), "**: ",
      TemplateText(lintError.message)>>

\* [a].concat(b).join('\n')
JoinTwo(a, b) == a \o <<"\n">> \o b

\* The object errorsByLine is the sequence of its properties in insertion
\* order (the order Object.keys lists these non-numeric keys in).
HasKey(obj, key) == \E i \in DOMAIN obj : obj[i].key = key

IndexOfKey(obj, key) == CHOOSE i \in DOMAIN obj : obj[i].key = key

GroupReducer(acc, lintError) ==
    LET key == getKey(lintError.line)
        created == IF ~HasKey(acc, key)
                   THEN Append(acc, [key |-> key, line |-> lintError.line, message |-> <<>>])
                   ELSE acc
        i == IndexOfKey(created, key)
    IN  [created EXCEPT ![i].message = JoinTwo(@, CommentEntry(lintError))]

RECURSIVE groupLintErrorsByLine(_)
groupLintErrorsByLine(lintErrors) ==
    IF lintErrors = <<>> THEN <<>>
    ELSE GroupReducer(groupLintErrorsByLine(SubSeq(lintErrors, 1, Len(lintErrors) - 1)),
                      lintErrors[Len(lintErrors)])

(***************************************************************************)
(* The emission of review comments.  A createComment call is the record of *)
(* its arguments; user and repo, the same in every call, are left out.     *)
(***************************************************************************)
\* if (obj[key]): obj[key] is undefined for a missing key, and undefined
\* and 0 are the falsy values a lineMap lookup can give.
HasTruthyValue(obj, key) == key \in DOMAIN obj /\ obj[key] # 0

\* The createComment calls sendSingleComment makes: none or one.
sendSingleComment(filename, lineMap, lintError, sha, prNumber) ==
    IF HasTruthyValue(lineMap, lintError.line)
    THEN <<[number |-> prNumber, body |-> lintError.message, commit_id |-> sha,
            path |-> filename, position |-> lineMap[lintError.line]]>>
    ELSE <<>>

\* The loop over the groups given up at the first group without a position.
RECURSIVE ForEachGroupStopsAtUnmapped(_, _, _, _, _)
ForEachGroupStopsAtUnmapped(groups, filename, lineMap, sha, prNumber) ==
    IF groups = <<>> \/ ~HasTruthyValue(lineMap, Head(groups).line) THEN <<>>
    ELSE sendSingleComment(filename, lineMap, Head(groups), sha, prNumber)
             \o ForEachGroupStopsAtUnmapped(Tail(groups), filename, lineMap, sha, prNumber)

\* Object.keys(errorsByLine).forEach((line) => sendSingleComment(...))
RECURSIVE ForEachGroup(_, _, _, _, _)
ForEachGroup(groups, filename, lineMap, sha, prNumber) ==
    IF groups = <<>> THEN <<>>
    ELSE sendSingleComment(filename, lineMap, Head(groups), sha, prNumber)
             \o ForEachGroup(Tail(groups), filename, lineMap, sha, prNumber)

\* One comment for each lint error instead of one for each group.
sendCommentsPerLintError(filename, lineMap, errors, sha, prNumber) ==
    ForEachGroup([i \in DOMAIN errors |->
                     [line |-> errors[i].line, message |-> CommentEntry(errors[i])]],
                 filename, lineMap, sha, prNumber)

\* The createComment calls sendComments makes, in order.
sendComments(filename, lineMap, errors, sha, prNumber) ==
    ForEachGroup(groupLintErrorsByLine(errors), filename, lineMap, sha, prNumber)

(***************************************************************************)
(* Webhook payloads, changed files and lint results the model draws from.  *)
(***************************************************************************)
Requests == 1..MaxRequests

Actions == {"opened", "reopened", "closed"}

\* The pull request a webhook is about: request r is about pull request
\* number 6 + r, whose head commit is <<"sha", 6 + r>>.
PullRequestOf(r, present) ==
    [present |-> present, head |-> [sha |-> <<"sha", 6 + r>>, ref |-> <<"ref", 6 + r>>]]

PayloadsOf(r) ==
    {[action |-> a, number |-> 6 + r, pull_request |-> PullRequestOf(r, present)] :
        a \in Actions, present \in BOOLEAN}

NoPayload == [action |-> Undefined, number |-> 0, pull_request |-> PullRequestOf(0, FALSE)]

\* Patch of a.js: line 5 is added at position 2.
PatchOfA == <<HunkHeader(4), ContextLine, AdditionLine>>

\* Patch of b.jsx: lines 4, 5 and 8 are added at positions 2, 3 and 6.
PatchOfB ==
    <<HunkHeader(4), DeletionLine, AdditionLine, AdditionLine, ContextLine, ContextLine,
      AdditionLine>>

\* Patch of c.md: line 1 is added at position 1.
PatchOfC == <<HunkHeader(1), AdditionLine>>

\* A changed file as getFiles lists it; sha is the sha of the file's blob.
FileA == [filename |-> <<"a", ".", "j", "s">>, patch |-> PatchOfA, sha |-> <<"blob", "a">>]

FileB ==
    [filename |-> <<"b", ".", "j", "s", "x">>, patch |-> PatchOfB, sha |-> <<"blob", "b">>]

FileC == [filename |-> <<"c", ".", "m", "d">>, patch |-> PatchOfC, sha |-> <<"blob", "c">>]

ChangedFileLists == {<<FileA, FileB>>, <<FileC, FileA>>}

LintError(ruleId, message, line) == [ruleId |-> ruleId, message |-> message, line |-> line]

\* The messages ESLint may report for a file's content.
LintResults ==
    {<<LintError(Undefined, "m1", 5), LintError("no-var", "m2", 5), LintError("no-var", "m1", 8)>>,
     <<LintError("no-var", "m1", 8), LintError(Null, "m2", 5)>>}

\* The value of process.env.FILE_FILTER: unset, or the pattern of config.js.
JsFilePattern == ".*(.js|.jsx)$"

FileFilters == {Undefined, JsFilePattern}

EndsWith(text, suffix) ==
    /\ Len(text) >= Len(suffix)
    /\ SubSeq(text, Len(text) - Len(suffix) + 1, Len(text)) = suffix

\* filename.match(pattern) is truthy.  match(undefined) matches the empty
\* pattern, which every string holds; in JsFilePattern the dots stand for
\* any character.
FilenameMatches(filename, pattern) ==
    IF pattern = Undefined THEN TRUE
    ELSE \/ Len(filename) >= 3 /\ EndsWith(filename, <<"j", "s">>)
         \/ Len(filename) >= 4 /\ EndsWith(filename, <<"j", "s", "x">>)

IsMatchingFile(file, pattern) == FilenameMatches(file.filename, pattern)

filterJavascriptFiles(files, pattern) ==
    LET keep == {i \in DOMAIN files : IsMatchingFile(files[i], pattern)}
        RECURSIVE Kept(_)
        Kept(i) == IF i > Len(files) THEN <<>>
                   ELSE (IF i \in keep THEN <<files[i]>> ELSE <<>>) \o Kept(i + 1)
    IN  Kept(1)

(***************************************************************************)
(* Startup: the required environment variables and the readiness check.    *)
(***************************************************************************)
RequiredVars == {"GITHUB_USERNAME", "GITHUB_PASSWORD", "REPOSITORY_OWNER", "REPOSITORY_NAME"}

\* The values a variable of process.env takes: unset, the empty string, or
\* some text.
EnvValues == {Undefined, "", "value"}

\* process.env[varName] as a condition: undefined and '' are falsy
IsSet(e, varName) == e[varName] # Undefined /\ e[varName] # ""

\* requiredVars.filter((varName) => !process.env[varName])
StillMissing(e) == {varName \in RequiredVars : ~IsSet(e, varName)}

\* A check that is content with the credentials alone.
isReadyToStartChecksCredentials(e) ==
    StillMissing(e) \cap {"GITHUB_USERNAME", "GITHUB_PASSWORD"} = {}

\* return stillMissing.length === 0
isReadyToStart(e) == Cardinality(StillMissing(e)) = 0

\* setTimeout(startApp, 2000)
PollInterval == 2000

(***************************************************************************)
(* State.                                                                  *)
(***************************************************************************)
VARIABLES
    patchString,        \* the patch being parsed, as its lines
    lineIdx,            \* number of lines the reduce has consumed
    parseAcc,           \* lineMap, diffLineIndex, fileLineIndex of the reduce
    lintErrors,         \* the messages being grouped
    errIdx,             \* number of messages the reduce has consumed
    errorsByLine,       \* the accumulator of the grouping
    FILE_FILTER,        \* process.env.FILE_FILTER
    payloads,           \* request -> the payload received, NoPayload before
    responseEnded,      \* request -> response.end() was called
    getFilesCall,       \* request -> "none", "pending", "resolved", "rejected"
    jsFiles,            \* request -> the files that passed the filter
    getContentCall,     \* request -> file index -> "pending", "data", "error"
    lintResult,         \* request -> file index -> messages ESLint reported
    pipeline,           \* request -> file index -> "pending", "fulfilled", "rejected"
    createCommentCalls, \* request -> file index -> the createComment calls made
    createCommentReply, \* request -> file index -> call index -> "pending",
                        \* "created", "failed": the reply to each call
    consoleLog,         \* request -> the messages logged for it, in order
    env,                \* process.env: required variable -> value
    initialCallPending, \* the call startApp() at the end of the file is to run
    pollTimers,         \* the delays of the pending setTimeout(startApp, ...)
    startLog,           \* the calls made on github and app at startup, in order
    stillMissingLogged  \* the variables the last "Still waiting" message named,
                        \* {} while none was logged

parseVars == <<patchString, lineIdx, parseAcc>>

groupVars == <<lintErrors, errIdx, errorsByLine>>

serverVars ==
    <<FILE_FILTER, payloads, responseEnded, getFilesCall, jsFiles, getContentCall,
      lintResult, pipeline, createCommentCalls, createCommentReply, consoleLog>>

startVars == <<env, initialCallPending, pollTimers, startLog, stillMissingLogged>>

vars == <<parseVars, groupVars, serverVars, startVars>>

ParseIdle == patchString = <<>> /\ lineIdx = 0 /\ parseAcc = ReducerStart

GroupIdle == lintErrors = <<>> /\ errIdx = 0 /\ errorsByLine = <<>>

\* The process has authenticated and listens, all variables being set.
Started ==
    /\ env = [varName \in RequiredVars |-> "value"]
    /\ initialCallPending = FALSE
    /\ pollTimers = <<>>
    /\ startLog = <<"authenticate", "listen">>
    /\ stillMissingLogged = {}

IsListening == \E k \in DOMAIN startLog : startLog[k] = "listen"

ServerIdle ==
    /\ FILE_FILTER = Undefined
    /\ payloads = [r \in Requests |-> NoPayload]
    /\ responseEnded = [r \in Requests |-> FALSE]
    /\ getFilesCall = [r \in Requests |-> "none"]
    /\ jsFiles = [r \in Requests |-> <<>>]
    /\ getContentCall = [r \in Requests |-> <<>>]
    /\ lintResult = [r \in Requests |-> <<>>]
    /\ pipeline = [r \in Requests |-> <<>>]
    /\ createCommentCalls = [r \in Requests |-> <<>>]
    /\ createCommentReply = [r \in Requests |-> <<>>]
    /\ consoleLog = [r \in Requests |-> <<>>]

(***************************************************************************)
(* SpecParse: getLineMapFromPatchString applied to every bounded patch,    *)
(* one reducer call per step.                                              *)
(***************************************************************************)
ParseInit ==
    /\ patchString \in PatchStrings
    /\ lineIdx = 0
    /\ parseAcc = ReducerStart
    /\ GroupIdle
    /\ ServerIdle
    /\ Started

ReduceLine ==
    /\ lineIdx < Len(patchString)
    /\ ~parseAcc.threw
    /\ lineIdx' = lineIdx + 1
    /\ parseAcc' = PatchReducer(parseAcc, patchString[lineIdx + 1])
    /\ UNCHANGED <<patchString, groupVars, serverVars, startVars>>

ParseNext == ReduceLine

SpecParse == ParseInit /\ [][ParseNext]_vars

ParseReturned == lineIdx = Len(patchString) /\ ~parseAcc.threw

(***************************************************************************)
(* SpecGroup: the grouping reduce applied to every bounded sequence of     *)
(* lint errors, one reducer call per step.                                 *)
(***************************************************************************)
GroupInit ==
    /\ lintErrors \in LintErrorSeqs
    /\ errIdx = 0
    /\ errorsByLine = <<>>
    /\ ParseIdle
    /\ ServerIdle
    /\ Started

ReduceLintError ==
    /\ errIdx < Len(lintErrors)
    /\ errIdx' = errIdx + 1
    /\ errorsByLine' = GroupReducer(errorsByLine, lintErrors[errIdx + 1])
    /\ UNCHANGED <<lintErrors, parseVars, serverVars, startVars>>

GroupNext == ReduceLintError

SpecGroup == GroupInit /\ [][GroupNext]_vars

GroupReturned == errIdx = Len(lintErrors)

(***************************************************************************)
(* Spec: the server once it listens.  Each step is one callback of the     *)
(* event loop: the webhook handler, the reply to getFiles, the reply to a  *)
(* getContent call together with the promise chain it settles.             *)
(***************************************************************************)
Init ==
    /\ ParseIdle
    /\ GroupIdle
    /\ FILE_FILTER \in FileFilters
    /\ payloads = [r \in Requests |-> NoPayload]
    /\ responseEnded = [r \in Requests |-> FALSE]
    /\ getFilesCall = [r \in Requests |-> "none"]
    /\ jsFiles = [r \in Requests |-> <<>>]
    /\ getContentCall = [r \in Requests |-> <<>>]
    /\ lintResult = [r \in Requests |-> <<>>]
    /\ pipeline = [r \in Requests |-> <<>>]
    /\ createCommentCalls = [r \in Requests |-> <<>>]
    /\ createCommentReply = [r \in Requests |-> <<>>]
    /\ consoleLog = [r \in Requests |-> <<>>]
    /\ Started

\* payload && payload.pull_request && payload.action === 'opened'
StartsProcessing(payload) == payload.pull_request.present /\ payload.action = "opened"

\* The handler with response.end() moved into the pipeline's completion.
AppPostEndsLater(r, payload) ==
    /\ IsListening
    /\ payloads[r] = NoPayload
    /\ payloads' = [payloads EXCEPT ![r] = payload]
    /\ getFilesCall' = [getFilesCall EXCEPT ![r] =
                            IF StartsProcessing(payload) THEN "pending" ELSE "none"]
    /\ consoleLog' = [consoleLog EXCEPT ![r] = Append(@, "Received request")]
    /\ responseEnded' = [responseEnded EXCEPT ![r] = ~StartsProcessing(payload)]
    /\ UNCHANGED <<parseVars, groupVars, startVars, FILE_FILTER, jsFiles, getContentCall,
                   lintResult, pipeline, createCommentCalls, createCommentReply>>

\* app.post('/'): treatPayload issues getFiles when the payload qualifies,
\* 'Received request' is logged and the response is ended, all in the same
\* callback.
AppPost(r, payload) ==
    /\ IsListening
    /\ payloads[r] = NoPayload
    /\ payloads' = [payloads EXCEPT ![r] = payload]
    /\ getFilesCall' = [getFilesCall EXCEPT ![r] =
                            IF StartsProcessing(payload) THEN "pending" ELSE "none"]
    /\ consoleLog' = [consoleLog EXCEPT ![r] = Append(@, "Received request")]
    /\ responseEnded' = [responseEnded EXCEPT ![r] = TRUE]
    /\ UNCHANGED <<parseVars, groupVars, startVars, FILE_FILTER, jsFiles, getContentCall,
                   lintResult, pipeline, createCommentCalls, createCommentReply>>

\* getFiles(...).then((files) => ...): one getContent call per filtered file
GetFilesResolved(r, files) ==
    /\ getFilesCall[r] = "pending"
    /\ getFilesCall' = [getFilesCall EXCEPT ![r] = "resolved"]
    /\ LET kept == filterJavascriptFiles(files, FILE_FILTER)
       IN  /\ jsFiles' = [jsFiles EXCEPT ![r] = kept]
           /\ getContentCall' = [getContentCall EXCEPT ![r] = [i \in DOMAIN kept |-> "pending"]]
           /\ lintResult' = [lintResult EXCEPT ![r] = [i \in DOMAIN kept |-> <<>>]]
           /\ pipeline' = [pipeline EXCEPT ![r] = [i \in DOMAIN kept |-> "pending"]]
           /\ createCommentCalls' =
                  [createCommentCalls EXCEPT ![r] = [i \in DOMAIN kept |-> <<>>]]
           /\ createCommentReply' =
                  [createCommentReply EXCEPT ![r] = [i \in DOMAIN kept |-> <<>>]]
    /\ UNCHANGED <<parseVars, groupVars, startVars, FILE_FILTER, payloads, responseEnded,
                   consoleLog>>

\* getFiles fails: the promise rejects and no handler is attached
GetFilesRejected(r) ==
    /\ getFilesCall[r] = "pending"
    /\ getFilesCall' = [getFilesCall EXCEPT ![r] = "rejected"]
    /\ UNCHANGED <<parseVars, groupVars, startVars, FILE_FILTER, payloads, responseEnded,
                   jsFiles, getContentCall, lintResult, pipeline, createCommentCalls,
                   createCommentReply, consoleLog>>

\* The value getContent resolves with, but for its content: the file's name
\* and patch, and the sha and prNumber treatPayload passed in
\* (pull_request.head.sha and number).  The two variants below take the sha
\* of the file's blob, and the last file of the request for every file.
ResolvedContentWithFileSha(r, i) ==
    [filename |-> jsFiles[r][i].filename, patch |-> jsFiles[r][i].patch,
     sha |-> jsFiles[r][i].sha, prNumber |-> payloads[r].number]

ResolvedContentOfLastFile(r, i) ==
    [filename |-> jsFiles[r][Len(jsFiles[r])].filename,
     patch |-> jsFiles[r][Len(jsFiles[r])].patch,
     sha |-> payloads[r].pull_request.head.sha, prNumber |-> payloads[r].number]

ResolvedContent(r, i) ==
    [filename |-> jsFiles[r][i].filename, patch |-> jsFiles[r][i].patch,
     sha |-> payloads[r].pull_request.head.sha, prNumber |-> payloads[r].number]

\* The getContent callback with an error that goes on as if it had data.
GetContentErrorGoesOn(r, i) ==
    /\ getFilesCall[r] = "resolved"
    /\ i \in DOMAIN getContentCall[r]
    /\ getContentCall[r][i] = "pending"
    /\ getContentCall' = [getContentCall EXCEPT ![r][i] = "error"]
    /\ consoleLog' = [consoleLog EXCEPT ![r] = Append(@, "error")]
    /\ \E errors \in LintResults :
          LET calls == sendComments(jsFiles[r][i].filename,
                                    getLineMapFromPatchString(jsFiles[r][i].patch).lineMap,
                                    errors, payloads[r].pull_request.head.sha,
                                    payloads[r].number)
          IN  /\ lintResult' = [lintResult EXCEPT ![r][i] = errors]
              /\ pipeline' = [pipeline EXCEPT ![r][i] = "fulfilled"]
              /\ createCommentCalls' = [createCommentCalls EXCEPT ![r][i] = calls]
              /\ createCommentReply' =
                     [createCommentReply EXCEPT ![r][i] = [c \in DOMAIN calls |-> "pending"]]
    /\ UNCHANGED <<parseVars, groupVars, startVars, FILE_FILTER, payloads, responseEnded,
                   getFilesCall, jsFiles>>

\* The getContent callback with an error: console.error(error) and
\* reject(error); neither lintContent nor sendComments runs.
GetContentError(r, i) ==
    /\ getFilesCall[r] = "resolved"
    /\ i \in DOMAIN getContentCall[r]
    /\ getContentCall[r][i] = "pending"
    /\ getContentCall' = [getContentCall EXCEPT ![r][i] = "error"]
    /\ consoleLog' = [consoleLog EXCEPT ![r] = Append(@, "error")]
    /\ pipeline' = [pipeline EXCEPT ![r][i] = "rejected"]
    /\ UNCHANGED <<parseVars, groupVars, startVars, FILE_FILTER, payloads, responseEnded,
                   getFilesCall, jsFiles, lintResult, createCommentCalls, createCommentReply>>

\* The getContent callback with data: resolve(...), then lintContent (which
\* parses the patch and runs ESLint on the content), then sendComments, whose
\* createComment calls are all made before any of them is answered.  When
\* the parse raises, the chain rejects before sendComments.  Nothing is
\* logged.
GetContentData(r, i, errors) ==
    /\ getFilesCall[r] = "resolved"
    /\ i \in DOMAIN getContentCall[r]
    /\ getContentCall[r][i] = "pending"
    /\ getContentCall' = [getContentCall EXCEPT ![r][i] = "data"]
    /\ LET resolved == ResolvedContent(r, i)
           parsed == getLineMapFromPatchString(resolved.patch)
           calls == sendComments(resolved.filename, parsed.lineMap, errors, resolved.sha,
                                 resolved.prNumber)
       IN  IF parsed.threw
           THEN /\ pipeline' = [pipeline EXCEPT ![r][i] = "rejected"]
                /\ UNCHANGED <<lintResult, createCommentCalls, createCommentReply>>
           ELSE /\ lintResult' = [lintResult EXCEPT ![r][i] = errors]
                /\ pipeline' = [pipeline EXCEPT ![r][i] = "fulfilled"]
                /\ createCommentCalls' = [createCommentCalls EXCEPT ![r][i] = calls]
                /\ createCommentReply' =
                       [createCommentReply EXCEPT ![r][i] = [c \in DOMAIN calls |-> "pending"]]
    /\ UNCHANGED <<parseVars, groupVars, startVars, FILE_FILTER, payloads, responseEnded,
                   getFilesCall, jsFiles, consoleLog>>

Next ==
    \/ \E r \in Requests : \E payload \in PayloadsOf(r) : AppPost(r, payload)
    \/ \E r \in Requests : \E files \in ChangedFileLists : GetFilesResolved(r, files)
    \/ \E r \in Requests : GetFilesRejected(r)
    \/ \E r \in Requests : \E i \in DOMAIN getContentCall[r] : GetContentError(r, i)
    \/ \E r \in Requests : \E i \in DOMAIN getContentCall[r] : \E errors \in LintResults :
          GetContentData(r, i, errors)

Spec == Init /\ [][Next]_vars

(***************************************************************************)
(* SpecStart: the startup of the process.  startApp runs once when the     *)
(* file is loaded and again whenever a poll timer fires; the environment   *)
(* may set or unset a variable between two callbacks.                      *)
(***************************************************************************)
StartInit ==
    /\ ParseIdle
    /\ GroupIdle
    /\ ServerIdle
    /\ env \in [RequiredVars -> EnvValues]
    /\ initialCallPending = TRUE
    /\ pollTimers = <<>>
    /\ startLog = <<>>
    /\ stillMissingLogged = {}

\* A startApp that sets the next timer whatever the check returned.
startAppKeepsPolling(timers) ==
    /\ pollTimers' = Append(timers, PollInterval)
    /\ IF isReadyToStart(env)
       THEN /\ startLog' = startLog \o <<"authenticate", "listen">>
            /\ UNCHANGED stillMissingLogged
       ELSE /\ stillMissingLogged' = StillMissing(env)
            /\ UNCHANGED startLog

\* A startApp that checks once and gives up when a variable is missing.
startAppChecksOnce(timers) ==
    IF isReadyToStart(env)
    THEN /\ startLog' = startLog \o <<"authenticate", "listen">>
         /\ pollTimers' = timers
         /\ UNCHANGED stillMissingLogged
    ELSE /\ stillMissingLogged' = StillMissing(env)
         /\ pollTimers' = timers
         /\ UNCHANGED startLog

\* The body of startApp, timers being the timers pending when it is called:
\* isReadyToStart() logs the variables still missing when there are some;
\* when ready, github.authenticate(...) and then app.listen(...); otherwise
\* setTimeout(startApp, 2000).
startApp(timers) ==
    IF isReadyToStart(env)
    THEN /\ startLog' = startLog \o <<"authenticate", "listen">>
         /\ pollTimers' = timers
         /\ UNCHANGED stillMissingLogged
    ELSE /\ stillMissingLogged' = StillMissing(env)
         /\ pollTimers' = Append(timers, PollInterval)
         /\ UNCHANGED startLog

\* startApp(); at the end of the file
StartAppAtLoad ==
    /\ initialCallPending
    /\ initialCallPending' = FALSE
    /\ startApp(pollTimers)
    /\ UNCHANGED <<parseVars, groupVars, serverVars, env>>

\* A timer set by setTimeout(startApp, 2000) fires
StartAppOnTimer ==
    /\ pollTimers # <<>>
    /\ startApp(Tail(pollTimers))
    /\ UNCHANGED <<parseVars, groupVars, serverVars, env, initialCallPending>>

\* The environment gives a variable another value
SetEnv(varName, value) ==
    /\ env[varName] # value
    /\ env' = [env EXCEPT ![varName] = value]
    /\ UNCHANGED <<parseVars, groupVars, serverVars, initialCallPending, pollTimers,
                   startLog, stillMissingLogged>>

StartNext ==
    \/ StartAppAtLoad
    \/ StartAppOnTimer
    \/ \E varName \in RequiredVars : \E value \in EnvValues : SetEnv(varName, value)

\* The initial call is run and a timer that was set does fire.
SpecStart ==
    /\ StartInit
    /\ [][StartNext]_vars
    /\ WF_vars(StartAppAtLoad)
    /\ WF_vars(StartAppOnTimer)

(***************************************************************************)
(* SpecReplies: the server together with the replies of the review service *)
(* to the createComment calls, for the first MaxRepliedRequests requests.  *)
(***************************************************************************)
RepliedRequests == 1..MaxRepliedRequests

\* A failed reply that ends the loop over the groups: the calls after the
\* failed one are not made.
CreateCommentFailsStopsLoop(r, i, c) ==
    /\ i \in DOMAIN createCommentReply[r]
    /\ c \in DOMAIN createCommentReply[r][i]
    /\ createCommentReply[r][i][c] = "pending"
    /\ createCommentReply' =
           [createCommentReply EXCEPT ![r][i] = SubSeq([@ EXCEPT ![c] = "failed"], 1, c)]
    /\ createCommentCalls' = [createCommentCalls EXCEPT ![r][i] = SubSeq(@, 1, c)]
    /\ UNCHANGED <<parseVars, groupVars, startVars, FILE_FILTER, payloads, responseEnded,
                   getFilesCall, jsFiles, getContentCall, lintResult, pipeline, consoleLog>>

\* github.pullRequests.createComment({...}) is called with the comment alone:
\* no callback is passed and nothing is chained on what it returns, so a
\* reply, good or bad, runs no code of the server.
CreateCommentSucceeds(r, i, c) ==
    /\ i \in DOMAIN createCommentReply[r]
    /\ c \in DOMAIN createCommentReply[r][i]
    /\ createCommentReply[r][i][c] = "pending"
    /\ createCommentReply' = [createCommentReply EXCEPT ![r][i][c] = "created"]
    /\ UNCHANGED <<parseVars, groupVars, startVars, FILE_FILTER, payloads, responseEnded,
                   getFilesCall, jsFiles, getContentCall, lintResult, pipeline,
                   createCommentCalls, consoleLog>>

CreateCommentFails(r, i, c) ==
    /\ i \in DOMAIN createCommentReply[r]
    /\ c \in DOMAIN createCommentReply[r][i]
    /\ createCommentReply[r][i][c] = "pending"
    /\ createCommentReply' = [createCommentReply EXCEPT ![r][i][c] = "failed"]
    /\ UNCHANGED <<parseVars, groupVars, startVars, FILE_FILTER, payloads, responseEnded,
                   getFilesCall, jsFiles, getContentCall, lintResult, pipeline,
                   createCommentCalls, consoleLog>>

\* The most calls one file makes: one per group, so one per lint error at most.
CallIndexes == 1..MaxLintErrors

RepliesNext ==
    \/ \E r \in RepliedRequests : \E payload \in PayloadsOf(r) : AppPost(r, payload)
    \/ \E r \in RepliedRequests : \E files \in ChangedFileLists : GetFilesResolved(r, files)
    \/ \E r \in RepliedRequests : GetFilesRejected(r)
    \/ \E r \in RepliedRequests : \E i \in DOMAIN getContentCall[r] : GetContentError(r, i)
    \/ \E r \in RepliedRequests : \E i \in DOMAIN getContentCall[r] :
          \E errors \in LintResults : GetContentData(r, i, errors)
    \/ \E r \in RepliedRequests : \E i \in DOMAIN getContentCall[r] : \E c \in CallIndexes :
          CreateCommentSucceeds(r, i, c)
    \/ \E r \in RepliedRequests : \E i \in DOMAIN getContentCall[r] : \E c \in CallIndexes :
          CreateCommentFails(r, i, c)

SpecReplies == Init /\ [][RepliesNext]_vars

(***************************************************************************)
(* What a unified diff says, read off the lines without the parser: which  *)
(* lines are hunk headers and the new-file start each declares, and the    *)
(* new-file line number of a line of the new file.                         *)
(***************************************************************************)
IsDeclaredHeader(line) == \E n \in NewStarts : line = HunkHeader(n)

DeclaredNewStart(line) == CHOOSE n \in NewStarts : line = HunkHeader(n)

IsNewFileLine(line) == line \in {ContextLine, AdditionLine}

\* A patch as the review service delivers it: it begins with a hunk header,
\* every "@@" line is a hunk header, and the no-newline marker follows a
\* line of file text.
IsUnifiedDiff(p) ==
    /\ IsDeclaredHeader(p[1])
    /\ \A i \in DOMAIN p : p[i] # HeaderWithoutNewStart /\ p[i] # <<>>
    /\ \A i \in DOMAIN p :
          p[i] = NoNewlineMarker =>
              i > 1 /\ p[i - 1] \in {ContextLine, AdditionLine, DeletionLine}

LastHeaderBefore(p, i) ==
    CHOOSE h \in 1..i : IsDeclaredHeader(p[h]) /\ \A j \in (h + 1)..i : ~IsDeclaredHeader(p[j])

NewFileLineNumber(p, i) ==
    LET h == LastHeaderBefore(p, i)
    IN  DeclaredNewStart(p[h]) + Cardinality({j \in (h + 1)..(i - 1) : IsNewFileLine(p[j])})

AdditionLineNumbers(p) ==
    {NewFileLineNumber(p, i) : i \in {j \in DOMAIN p : p[j] = AdditionLine}}

NonHeaderLinesUpTo(p, i) ==
    Cardinality({j \in 1..i : ~IsDeclaredHeader(p[j]) /\ p[j] # HeaderWithoutNewStart})

\* C1: for every patch the keys of the returned LineMap are exactly the
\* new-file line numbers of the addition lines of the patch.
C1_KeysAreAdditionLines ==
    (ParseReturned /\ IsUnifiedDiff(patchString)) =>
        DOMAIN parseAcc.lineMap = AdditionLineNumbers(patchString)

\* The same statement for the patches that hold no no-newline marker.
KeysAreAdditionLinesWithoutMarker ==
    (/\ ParseReturned
     /\ IsUnifiedDiff(patchString)
     /\ \A i \in DOMAIN patchString : patchString[i] # NoNewlineMarker) =>
        DOMAIN parseAcc.lineMap = AdditionLineNumbers(patchString)

\* C2: the position recorded for an addition line is the number of
\* non-header lines of the patch up to and including it; a hunk header
\* leaves the position counter as it is, so a later hunk continues from the
\* last position of the previous one.
C2_PositionCountsNonHeaderLines ==
    [][(lineIdx' = lineIdx + 1) =>
        LET line == patchString[lineIdx']
        IN  /\ (IsDeclaredHeader(line) =>
                    parseAcc'.diffLineIndex = parseAcc.diffLineIndex)
            /\ (~IsDeclaredHeader(line) /\ ~parseAcc'.threw =>
                    parseAcc'.diffLineIndex = NonHeaderLinesUpTo(patchString, lineIdx'))
            /\ (line = AdditionLine =>
                    /\ parseAcc'.fileLineIndex \in DOMAIN parseAcc'.lineMap
                    /\ parseAcc'.lineMap[parseAcc'.fileLineIndex]
                           = NonHeaderLinesUpTo(patchString, lineIdx'))]_vars

\* A second hunk whose first body line is an addition, recorded at the
\* position after the last position of the first hunk.
C2_Witness ==
    /\ ParseReturned
    /\ patchString = <<HunkHeader(1), ContextLine, HunkHeader(12), AdditionLine>>
    /\ parseAcc.lineMap[12] = 2

\* C3: a hunk header sets the file-line counter to new-start - 1 whatever it
\* was before, and the first non-deletion line after a header with
\* new-start n is given file line n.
C3_HeaderResetsFileLine ==
    [][(lineIdx' = lineIdx + 1) =>
        LET line == patchString[lineIdx']
        IN  /\ (IsDeclaredHeader(line) =>
                    parseAcc'.fileLineIndex = DeclaredNewStart(line) - 1)
            /\ \A h \in 1..lineIdx :
                  (/\ IsDeclaredHeader(patchString[h])
                   /\ \A j \in (h + 1)..lineIdx : patchString[j] = DeletionLine
                   /\ line \in {ContextLine, AdditionLine}) =>
                      parseAcc'.fileLineIndex = DeclaredNewStart(patchString[h])]_vars

\* A header with new-start 4 met while the counter stood at 11, and the
\* addition after a deletion given file line 4.
C3_Witness ==
    /\ ParseReturned
    /\ patchString = <<HunkHeader(12), HunkHeader(4), DeletionLine, AdditionLine>>
    /\ parseAcc.fileLineIndex = 4
    /\ parseAcc.lineMap[4] = 2

\* C15: parsing never raises: whatever the patch string, the reduce runs
\* to its end and returns a map, and the empty patch gives the empty map.
C15_ParsingNeverRaises ==
    /\ ~parseAcc.threw
    /\ (patchString = EmptyPatchString /\ lineIdx = Len(patchString)) =>
           parseAcc.lineMap = <<>>

\* C17: the reducer call on a deletion line adds exactly 1 to the diff
\* position counter and leaves the file-line counter and the LineMap as
\* they were.
C17_DeletionAdvancesPositionOnly ==
    [][(lineIdx' = lineIdx + 1 /\ patchString[lineIdx'] = DeletionLine) =>
        /\ parseAcc'.diffLineIndex = parseAcc.diffLineIndex + 1
        /\ parseAcc'.fileLineIndex = parseAcc.fileLineIndex
        /\ parseAcc'.lineMap = parseAcc.lineMap
        /\ ~parseAcc'.threw]_vars

\* A deletion consumed after an addition: the position went from 1 to 2,
\* the file line stayed at 4 and the map still holds the addition alone;
\* the addition after it is line 5 at position 3.
C17_Witness ==
    /\ ParseReturned
    /\ patchString = <<HunkHeader(4), AdditionLine, DeletionLine, AdditionLine>>
    /\ parseAcc.diffLineIndex = 3
    /\ parseAcc.fileLineIndex = 5
    /\ DOMAIN parseAcc.lineMap = {4, 5}
    /\ parseAcc.lineMap[4] = 1
    /\ parseAcc.lineMap[5] = 3

(***************************************************************************)
(* What the grouping is to produce, read off the lint errors: the entries  *)
(* of the errors on one line, in arrival order.                            *)
(***************************************************************************)
RECURSIVE EntriesOnLine(_, _)
EntriesOnLine(errors, line) ==
    IF errors = <<>> THEN <<>>
    ELSE LET rest == EntriesOnLine(Tail(errors), line)
         IN  IF Head(errors).line = line THEN <<CommentEntry(Head(errors))>> \o rest ELSE rest

\* e1 \n e2 \n ... \n en: n entries and n - 1 separators
RECURSIVE JoinWithNewlines(_)
JoinWithNewlines(entries) ==
    IF entries = <<>> THEN <<>>
    ELSE IF Len(entries) = 1 THEN entries[1]
    ELSE entries[1] \o <<"\n">> \o JoinWithNewlines(Tail(entries))

RECURSIVE Concatenation(_)
Concatenation(entries) ==
    IF entries = <<>> THEN <<>> ELSE entries[1] \o Concatenation(Tail(entries))

IsNotSeparator(chunk) == chunk # "\n"

ConsumedErrors == SubSeq(lintErrors, 1, errIdx)

\* C4: the composed body of each group is the entries of the errors on its
\* line, in arrival order, joined by single newlines: it begins with the
\* first entry and holds one separator fewer than entries.
C4_BodyIsNewlineJoinedEntries ==
    GroupReturned =>
        \A g \in DOMAIN errorsByLine :
            errorsByLine[g].message
                = JoinWithNewlines(EntriesOnLine(lintErrors, errorsByLine[g].line))

\* C5: the groups partition the errors by line: one group per distinct line
\* of the input, and the entries of a group are those of the errors on its
\* line, each once, and of no other error.
C5_GroupsPartitionByLine ==
    /\ {errorsByLine[g].line : g \in DOMAIN errorsByLine}
           = {ConsumedErrors[i].line : i \in DOMAIN ConsumedErrors}
    /\ \A g, h \in DOMAIN errorsByLine :
           errorsByLine[g].line = errorsByLine[h].line => g = h
    /\ \A g \in DOMAIN errorsByLine :
           SelectSeq(errorsByLine[g].message, IsNotSeparator)
               = Concatenation(EntriesOnLine(ConsumedErrors, errorsByLine[g].line))

\* The rule name of the k-th entry of a body: an entry is the four chunks
\* "**", rule name, "**: ", message.
RuleNameOfEntry(body, k) == SelectSeq(body, IsNotSeparator)[4 * (k - 1) + 2]

\* C14: the entry of a lint error whose ruleId is missing or null names the
\* placeholder as its rule, and the entry of any other error names its
\* ruleId; no entry is built from the absent value.
C14_AbsentRuleIdGetsPlaceholder ==
    \A g \in DOMAIN errorsByLine :
        LET onLine == SelectSeq(ConsumedErrors,
                                LAMBDA e : e.line = errorsByLine[g].line)
        IN  \A k \in DOMAIN onLine :
                RuleNameOfEntry(errorsByLine[g].message, k)
                    = IF onLine[k].ruleId \in {Undefined, Null}
                      THEN "Eslint"
                      ELSE onLine[k].ruleId

\* The same statement for the errors whose ruleId is anything but null.
MissingRuleIdGetsPlaceholder ==
    \A g \in DOMAIN errorsByLine :
        LET onLine == SelectSeq(ConsumedErrors,
                                LAMBDA e : e.line = errorsByLine[g].line)
        IN  \A k \in DOMAIN onLine :
                onLine[k].ruleId # Null =>
                    RuleNameOfEntry(errorsByLine[g].message, k)
                        = IF onLine[k].ruleId = Undefined
                          THEN "Eslint"
                          ELSE onLine[k].ruleId

\* Errors on lines 5, 8, 5 grouped into the group of line 5 (two entries)
\* and the group of line 8 (one entry).
C5_Witness ==
    /\ GroupReturned
    /\ Len(lintErrors) = 3
    /\ lintErrors[1].line = 5 /\ lintErrors[2].line = 8 /\ lintErrors[3].line = 5
    /\ lintErrors[1].message = "m1" /\ lintErrors[3].message = "m2"
    /\ Len(errorsByLine) = 2
    /\ errorsByLine[1].line = 5 /\ errorsByLine[2].line = 8
    /\ Len(SelectSeq(errorsByLine[1].message, IsNotSeparator)) = 8

(***************************************************************************)
(* Properties of the server.                                               *)
(***************************************************************************)
Pipelines == UNION {{<<r, i>> : i \in DOMAIN getContentCall[r]} : r \in Requests}

LineMapOf(r, i) == getLineMapFromPatchString(jsFiles[r][i].patch).lineMap

GroupsOf(r, i) == groupLintErrorsByLine(lintResult[r][i])

LinesOf(r, i) == {lintResult[r][i][k].line : k \in DOMAIN lintResult[r][i]}

CallsAt(r, i, position) ==
    {c \in DOMAIN createCommentCalls[r][i] : createCommentCalls[r][i][c].position = position}

\* C6: a group whose line has no LineMap entry yields no comment and no
\* error, and the other groups of the file are still processed: the calls of
\* a file are as many as its groups with an entry, none of them carrying the
\* body of a group without one.
C6_UnmappedGroupIsDropped ==
    \A p \in Pipelines :
        LET r == p[1]
            i == p[2]
            groups == GroupsOf(r, i)
            mapped == {g \in DOMAIN groups : groups[g].line \in DOMAIN LineMapOf(r, i)}
        IN  getContentCall[r][i] = "data" =>
                /\ pipeline[r][i] = "fulfilled"
                /\ Len(createCommentCalls[r][i]) = Cardinality(mapped)
                /\ \A g \in (DOMAIN groups) \ mapped :
                       \A c \in DOMAIN createCommentCalls[r][i] :
                           createCommentCalls[r][i][c].body # groups[g].message

\* a.js (LineMap {5: 2}) with errors on lines 5, 5, 8 yields exactly one
\* comment, at position 2; so it does with errors on lines 8, 5, where the
\* group without an entry comes first.
C6_Witness ==
    \E r \in Requests : \E i \in DOMAIN getContentCall[r] :
        /\ jsFiles[r][i] = FileA
        /\ getContentCall[r][i] = "data"
        /\ Len(lintResult[r][i]) = 3
        /\ Len(createCommentCalls[r][i]) = 1
        /\ createCommentCalls[r][i][1].position = 2
        /\ \E r2 \in Requests : \E k \in DOMAIN getContentCall[r2] :
              /\ jsFiles[r2][k] = FileA
              /\ getContentCall[r2][k] = "data"
              /\ Len(lintResult[r2][k]) = 2
              /\ lintResult[r2][k][1].line = 8
              /\ Len(createCommentCalls[r2][k]) = 1
              /\ createCommentCalls[r2][k][1].position = 2

\* C7: for one file of one event, each line that has errors and a LineMap
\* entry gets exactly one createComment call, at position lineMap[line], for
\* the file's path, with a body made of the entries of all errors of the
\* line; there are no other calls.
C7_OneCommentPerMappedLine ==
    \A p \in Pipelines :
        LET r == p[1]
            i == p[2]
            lineMap == LineMapOf(r, i)
            calls == createCommentCalls[r][i]
        IN  pipeline[r][i] = "fulfilled" =>
                /\ \A line \in LinesOf(r, i) \cap DOMAIN lineMap :
                       /\ Cardinality(CallsAt(r, i, lineMap[line])) = 1
                       /\ \A c \in CallsAt(r, i, lineMap[line]) :
                             /\ SelectSeq(calls[c].body, IsNotSeparator)
                                    = Concatenation(EntriesOnLine(lintResult[r][i], line))
                             /\ calls[c].path = jsFiles[r][i].filename
                /\ \A c \in DOMAIN calls :
                       \E line \in LinesOf(r, i) \cap DOMAIN lineMap :
                           calls[c].position = lineMap[line]

\* b.jsx with errors on lines 5, 5, 8: one comment at position 3 with both
\* entries of line 5, one at position 6.
C7_Witness ==
    \E r \in Requests : \E i \in DOMAIN getContentCall[r] :
        /\ jsFiles[r][i] = FileB
        /\ pipeline[r][i] = "fulfilled"
        /\ Len(lintResult[r][i]) = 3
        /\ Len(createCommentCalls[r][i]) = 2
        /\ createCommentCalls[r][i][1].position = 3
        /\ Len(SelectSeq(createCommentCalls[r][i][1].body, IsNotSeparator)) = 8
        /\ createCommentCalls[r][i][2].position = 6

\* C8: an event starts processing (the getFiles call) if and only if it
\* carries a pull request and its action is "opened" or "reopened"; every
\* event is acknowledged.
C8_OpenedOrReopenedStartsProcessing ==
    \A r \in Requests :
        payloads[r] # NoPayload =>
            /\ responseEnded[r]
            /\ (getFilesCall[r] # "none") <=>
                   (/\ payloads[r].pull_request.present
                    /\ payloads[r].action \in {"opened", "reopened"})

\* config.js: env.FILE_FILTER || /.*(.js|.jsx)$/
ConfiguredFileFilter == IF FILE_FILTER = Undefined THEN JsFilePattern ELSE FILE_FILTER

\* C12: a content fetch is started only for changed files whose name
\* matches the filename filter, the default filter (names ending in .js or
\* .jsx) standing in when none is configured.
C12_OnlyMatchingFilesAreFetched ==
    \A p \in Pipelines :
        FilenameMatches(jsFiles[p[1]][p[2]].filename, ConfiguredFileFilter)

\* The same statement for a process whose FILE_FILTER is set.
SetFilterIsApplied ==
    FILE_FILTER # Undefined =>
        \A p \in Pipelines : FilenameMatches(jsFiles[p[1]][p[2]].filename, FILE_FILTER)

\* C9: every request is acknowledged in the callback that receives it,
\* whatever its action: a received request whose getFiles call is pending,
\* settled, or was never made has its response ended, and stays so when a
\* pipeline fails.
C9_AcknowledgedOnReceipt ==
    \A r \in Requests : payloads[r] # NoPayload => responseEnded[r]

\* A request acknowledged while its getFiles call is pending, another
\* acknowledged whose getFiles call failed, and an ignored one.
C9_Witness ==
    \E r1, r2 \in Requests :
        /\ getFilesCall[r1] = "pending" /\ responseEnded[r1]
        /\ \/ getFilesCall[r2] = "rejected" /\ responseEnded[r2]
           \/ payloads[r2] # NoPayload /\ payloads[r2].action = "closed" /\ responseEnded[r2]

\* C10: a file whose content fetch failed gets no comment, and each file
\* whose fetch succeeded gets the comments of its own patch and lint result,
\* whatever became of the other files of the request.
C10_FetchFailureStaysInItsFile ==
    \A p \in Pipelines :
        LET r == p[1]
            i == p[2]
        IN  /\ getContentCall[r][i] = "error" => createCommentCalls[r][i] = <<>>
            /\ getContentCall[r][i] = "data" =>
                   createCommentCalls[r][i]
                       = sendComments(jsFiles[r][i].filename, LineMapOf(r, i),
                                      lintResult[r][i],
                                      payloads[r].pull_request.head.sha, payloads[r].number)

\* One file of a request failed to be fetched and gets no comment; the
\* other file of the request got its comments.
C10_Witness ==
    \E r \in Requests : \E i, j \in DOMAIN getContentCall[r] :
        /\ i # j
        /\ getContentCall[r][i] = "error"
        /\ pipeline[r][i] = "rejected"
        /\ createCommentCalls[r][i] = <<>>
        /\ getContentCall[r][j] = "data"
        /\ Len(createCommentCalls[r][j]) >= 1

\* C16: every createComment call carries the identity of the pipeline that
\* made it: commit_id is the head sha of the pull request of the request's
\* payload, number is that payload's number, and path is the filename of
\* the pipeline's file, whatever other files and requests are in progress.
C16_CommentCarriesPipelineIdentity ==
    \A p \in Pipelines :
        LET r == p[1]
            i == p[2]
        IN  \A c \in DOMAIN createCommentCalls[r][i] :
                /\ createCommentCalls[r][i][c].commit_id = payloads[r].pull_request.head.sha
                /\ createCommentCalls[r][i][c].number = payloads[r].number
                /\ createCommentCalls[r][i][c].path = jsFiles[r][i].filename

\* Two requests in progress at once, each with calls made, and within one
\* of them two files with calls made.
C16_Witness ==
    \E r1, r2 \in Requests :
        /\ r1 # r2
        /\ payloads[r1].number # payloads[r2].number
        /\ \E i, j \in DOMAIN createCommentCalls[r1] :
               /\ i # j
               /\ createCommentCalls[r1][i] # <<>>
               /\ createCommentCalls[r1][j] # <<>>
               /\ createCommentCalls[r1][i][1].path # createCommentCalls[r1][j][1].path
        /\ \E i \in DOMAIN createCommentCalls[r2] : createCommentCalls[r2][i] # <<>>
        /\ \E i \in DOMAIN getContentCall[r2] : getContentCall[r2][i] = "pending"

\* The comments posted for a request, as a set, and the comments its files
\* fetched so far determine: those of each file's own name, patch and lint
\* result.
PostedComments(r) ==
    UNION {{createCommentCalls[r][i][c] : c \in DOMAIN createCommentCalls[r][i]} :
              i \in DOMAIN createCommentCalls[r]}

CommentsOfFile(r, i) ==
    LET calls == sendComments(jsFiles[r][i].filename, LineMapOf(r, i), lintResult[r][i],
                              payloads[r].pull_request.head.sha, payloads[r].number)
    IN  {calls[c] : c \in DOMAIN calls}

FetchedFiles(r) == {i \in DOMAIN getContentCall[r] : getContentCall[r][i] = "data"}

\* C19: the pipelines share no mutable state.  The set of comments posted
\* for a request is, in every order of completion, the union over its
\* fetched files of the comments of that file alone; and a step changes the
\* calls, the lint result and the outcome of one pipeline at most, namely
\* of the one whose content fetch it completes.
C19_PipelinesShareNoState ==
    /\ [](\A r \in Requests :
              PostedComments(r) = UNION {CommentsOfFile(r, i) : i \in FetchedFiles(r)})
    /\ [][\A p \in Pipelines :
              LET r == p[1]
                  i == p[2]
              IN  \/ getContentCall[r][i] = "pending" /\ getContentCall'[r][i] # "pending"
                  \/ /\ createCommentCalls'[r][i] = createCommentCalls[r][i]
                     /\ lintResult'[r][i] = lintResult[r][i]
                     /\ pipeline'[r][i] = pipeline[r][i]
                     /\ jsFiles'[r][i] = jsFiles[r][i]]_vars

\* The two files of a request fetched, the second before the first or the
\* first before the second, each with the comments of its own patch, while
\* a file of the other request is fetched as well.
C19_Witness ==
    \E r1, r2 \in Requests :
        /\ r1 # r2
        /\ FetchedFiles(r1) = {1, 2}
        /\ jsFiles[r1] = <<FileA, FileB>>
        /\ lintResult[r1][1] = lintResult[r1][2]
        /\ Cardinality(PostedComments(r1)) = 3
        /\ {c.position : c \in CommentsOfFile(r1, 1)} = {2}
        /\ {c.position : c \in CommentsOfFile(r1, 2)} = {3, 6}
        /\ FetchedFiles(r2) # {}
        /\ PostedComments(r2) # {}

HasFailedReply(r, i) ==
    \E c \in DOMAIN createCommentReply[r][i] : createCommentReply[r][i][c] = "failed"

\* C11: a failed createComment call stops neither the loop over the other
\* groups of its file nor another file's pipeline.  The step in which a
\* call fails changes no call, no fetch and no pipeline; and once a call of
\* a file has failed, that file still has one call per group with a LineMap
\* entry, and every fetched file of the request has the calls of its own
\* groups.
C11_FailedPostStopsNothing ==
    /\ [](\A p \in Pipelines :
              HasFailedReply(p[1], p[2]) =>
                  /\ Len(createCommentCalls[p[1]][p[2]])
                         = Cardinality({g \in DOMAIN GroupsOf(p[1], p[2]) :
                               HasTruthyValue(LineMapOf(p[1], p[2]),
                                              GroupsOf(p[1], p[2])[g].line)})
                  /\ \A j \in FetchedFiles(p[1]) :
                         {createCommentCalls[p[1]][j][c] :
                              c \in DOMAIN createCommentCalls[p[1]][j]}
                             = CommentsOfFile(p[1], j))
    /\ [][\A p \in Pipelines :
              (HasFailedReply(p[1], p[2])' /\ ~HasFailedReply(p[1], p[2])) =>
                  UNCHANGED <<createCommentCalls, getContentCall, pipeline, lintResult>>]_vars

\* The first of the two calls of b.jsx failed, its second call was made and
\* created its comment, and a.js, fetched in the same request, made its
\* call, which created its comment.
C11_Witness ==
    \E r \in Requests :
        /\ jsFiles[r] = <<FileA, FileB>>
        /\ Len(createCommentCalls[r][2]) = 2
        /\ createCommentReply[r][2] = <<"failed", "created">>
        /\ Len(createCommentCalls[r][1]) = 1
        /\ createCommentReply[r][1] = <<"created">>

\* Every pipeline of the request has ended: each content fetch was answered
\* and its chain settled, and each createComment call was answered.
AllPipelinesEnded(r) ==
    \A i \in DOMAIN pipeline[r] :
        /\ pipeline[r][i] # "pending"
        /\ \A c \in DOMAIN createCommentReply[r][i] : createCommentReply[r][i][c] # "pending"

CompletionReported(r) ==
    \E k \in DOMAIN consoleLog[r] : consoleLog[r][k] = "All files linted"

\* C18: for every request whose changed files were listed, completion is
\* reported exactly when all its per-file pipelines have ended, whether in
\* success or in failure.
C18_CompletionReportedWhenAllEnded ==
    \A r \in Requests :
        getFilesCall[r] = "resolved" => (CompletionReported(r) <=> AllPipelinesEnded(r))

\* Half of the statement: completion is not reported while a content fetch
\* or a comment post of the request is outstanding.
NoCompletionReportedEarly ==
    \A r \in Requests :
        (getFilesCall[r] = "resolved" /\ CompletionReported(r)) => AllPipelinesEnded(r)

HasAuthenticated == \E k \in DOMAIN startLog : startLog[k] = "authenticate"

\* C13: neither github.authenticate nor app.listen is called in a state
\* where a required variable is missing, and the call of authenticate comes
\* before the call of listen.
C13_StartsOnlyWhenConfigured ==
    /\ [][startLog' # startLog =>
              /\ StillMissing(env) = {}
              /\ StillMissing(env') = {}
              /\ startLog' = startLog \o <<"authenticate", "listen">>]_vars
    /\ [](\A k \in DOMAIN startLog :
              startLog[k] = "listen" =>
                  \E j \in 1..(k - 1) : startLog[j] = "authenticate")
    /\ [](startLog = <<>> \/ (HasAuthenticated /\ IsListening))

\* The process waited while REPOSITORY_NAME alone was missing, and
\* authenticated and listened once it was set.
C13_Witness ==
    /\ stillMissingLogged = {"REPOSITORY_NAME"}
    /\ startLog = <<"authenticate", "listen">>
    /\ StillMissing(env) = {}

AllPresent == StillMissing(env) = {}

\* C20: a missing variable does not end the process: until it has started,
\* either the initial call of startApp or one poll timer of 2000 ms is
\* pending, so the check is made again; and if from some point on all
\* variables are set, the process authenticates and listens.
C20_PollsUntilConfigured ==
    /\ [](~IsListening =>
              \/ initialCallPending /\ pollTimers = <<>>
              \/ ~initialCallPending /\ pollTimers = <<PollInterval>>)
    /\ (<>[]AllPresent => <>(HasAuthenticated /\ IsListening))

\* The process started with nothing set, logged the four variables as
\* missing, and listens now that all are set, with no timer left.
C20_Witness ==
    /\ Cardinality(stillMissingLogged) = 4
    /\ IsListening
    /\ ~initialCallPending
    /\ pollTimers = <<>>

\* The lines of the patch that are no '@@' line.
NonHeaderLineCount(p) == Cardinality({j \in DOMAIN p : ~MatchesHunkHeader(p[j])})

\* C21: every value of the LineMap is an integer from 1 to the number of
\* non-header lines of the patch, so the test of sendSingleComment, which
\* takes a position for present when it is truthy, is true of a line exactly
\* when the line is a key of the LineMap.
C21_PositionsArePositive ==
    /\ \A k \in DOMAIN parseAcc.lineMap :
           /\ parseAcc.lineMap[k] \in 1..NonHeaderLineCount(patchString)
           /\ parseAcc.lineMap[k] <= parseAcc.diffLineIndex
    /\ \A line \in ErrorLines \cup DOMAIN parseAcc.lineMap :
           HasTruthyValue(parseAcc.lineMap, line) <=> line \in DOMAIN parseAcc.lineMap

\* An addition on the first line after the header has position 1, the
\* least there is, and passes the test; line 2, a context line, has none.
C21_Witness ==
    /\ ParseReturned
    /\ patchString = <<HunkHeader(1), AdditionLine, ContextLine, AdditionLine>>
    /\ parseAcc.lineMap[1] = 1
    /\ parseAcc.lineMap[3] = 3
    /\ HasTruthyValue(parseAcc.lineMap, 1)
    /\ ~HasTruthyValue(parseAcc.lineMap, 2)

\* C22: the LineMap is injective at every step of the reduce: two distinct
\* file lines never have the same position, also when a later hunk writes a
\* key an earlier one wrote.
C22_LineMapIsInjective ==
    \A k1, k2 \in DOMAIN parseAcc.lineMap :
        parseAcc.lineMap[k1] = parseAcc.lineMap[k2] => k1 = k2

\* Lines 1 and 2 were written at positions 1 and 2, and a later hunk that
\* starts at line 1 again wrote line 1 anew, at position 3.
C22_Witness ==
    /\ ParseReturned
    /\ patchString = <<AdditionLine, AdditionLine, HunkHeader(1), AdditionLine>>
    /\ DOMAIN parseAcc.lineMap = {1, 2}
    /\ parseAcc.lineMap[1] = 3
    /\ parseAcc.lineMap[2] = 2

\* The positions of the calls of one file are pairwise distinct.
CallsOfFileHaveDistinctPositions ==
    \A p \in Pipelines :
        \A c1, c2 \in DOMAIN createCommentCalls[p[1]][p[2]] :
            createCommentCalls[p[1]][p[2]][c1].position
                = createCommentCalls[p[1]][p[2]][c2].position => c1 = c2

\* C23: authenticate and listen are called once at most; once they were
\* called no check is pending and none is set again; and at no time is
\* more than one poll timer pending, nor a timer together with the initial
\* call.
C23_StartsAtMostOnce ==
    /\ [](startLog \in {<<>>, <<"authenticate", "listen">>})
    /\ [](Len(pollTimers) + (IF initialCallPending THEN 1 ELSE 0) <= 1)
    /\ [](IsListening => pollTimers = <<>> /\ ~initialCallPending)
    /\ [][IsListening => UNCHANGED <<startLog, pollTimers, initialCallPending>>]_vars

\* The process listens, having waited for the two credentials; a variable
\* was unset since, and no check is pending.
C23_Witness ==
    /\ startLog = <<"authenticate", "listen">>
    /\ stillMissingLogged = {"GITHUB_USERNAME", "GITHUB_PASSWORD"}
    /\ StillMissing(env) = {"REPOSITORY_OWNER"}
    /\ pollTimers = <<>>
    /\ ~initialCallPending

=============================================================================
